---- MODULE Spec2Model ----
(***************************************************************************)
(* The plan scheduler of CoordinatorAgent (agents/coordinator.py), the     *)
(* EventBus it publishes through (events/event_bus.py) and the findings    *)
(* store SharedContext (context/shared_context.py), each as a state        *)
(* machine.  The scheduler coroutine and the step tasks it creates   *)
(* run on one asyncio event loop: code between two suspension points is    *)
(* one atomic action.  The scheduler suspends only in asyncio.wait; a step *)
(* task suspends only inside the specialist's analyze (EventBus.publish    *)
(* has an empty body and never suspends).                                  *)
(***************************************************************************)
EXTENDS Integers, Sequences, FiniteSets, TLC

VARIABLES
    steps,        \* plan["steps"]: the sequence of step records
    specialists,  \* CoordinatorAgent._specialists: the registered agent types
    pc,           \* position of _execute_plan: start, loop, waiting, returned, raised
    completed,    \* _execute_plan's local set `completed` (step ids)
    running,      \* _execute_plan's local dict `running`: step id -> task (a step index)
    task,         \* per step index, the state of the task created for it
    exc,          \* per step index, the exception its task ended with
    error,        \* the exception _execute_plan raised to its caller
    events,       \* the events handed to EventBus.publish, in call order
    launches,     \* per step index, how many tasks were created for it
    invoked,      \* per step index, how many times analyze was invoked for it
    elapsed,      \* per step index, the seconds its task has been inside analyze
    subscribers,  \* EventBus._subscribers: event type -> callbacks
    eventQueue,   \* EventBus._event_queue: the queued events
    subscription, \* per callback, what its owner last asked of the bus
    published,    \* the events EventBus.publish was called with, in call order
    due,          \* per callback, the events published while it was subscribed
    delivered,    \* per callback, the events the bus handed to it
    findings,     \* SharedContext._findings
    report,       \* SharedContext._report
    returned,     \* the last read of the store: which method, len(_findings) then
    added,        \* per worker, how many findings it has added
    evt,          \* the Event object in hand
    wire,         \* the dict Event.to_dict returned, or a dict received
    decoded,      \* the Event object Event.from_dict returned
    outcome,      \* the last call on an Event and the exception it raised
    context,      \* the keys of the context mapping passed to analyze
    result        \* what CoordinatorAgent.analyze returned or raised

coordVars == <<steps, specialists, pc, completed, running, task, exc, error,
               events, launches, invoked, elapsed>>

busVars == <<subscribers, eventQueue, subscription, published, due, delivered>>

storeVars == <<findings, report, returned, added>>

wireVars == <<evt, wire, decoded, outcome>>

callVars == <<context, result>>

vars == <<coordVars, busVars, storeVars, wireVars, callVars>>

(***************************************************************************)
(* Bounds of the model.                                                    *)
(***************************************************************************)
\* The longest plan.
MaxSteps == 3

\* The timeout_seconds every step of a plan declares.
TimeoutSeconds == 1

\* The most events published on the bus.
MaxPublished == 3

\* The most findings added to the store by its callers.
MaxFindings == 3

\* The steps that add findings concurrently, and the findings each adds.
NumWorkers == 2

AddsPerWorker == 2

(***************************************************************************)
(* Plans.                                                                  *)
(***************************************************************************)
\* The step ids a plan may use; a plan of n steps uses the first n, so a
\* shorter plan may depend on an id that is not one of its steps.
StepIds == <<"a", "b", "c", "d", "e">>

\* The agent types of the two specialists the program registers.
AgentTypes == <<"security", "bug">>

AgentTypeOf(i) == AgentTypes[((i - 1) % Len(AgentTypes)) + 1]

DepUniverse == {StepIds[k] : k \in 1..MaxSteps}

Step(i, deps) ==
    [step_id |-> StepIds[i],
     agent_type |-> AgentTypeOf(i),
     depends_on |-> deps,
     can_run_parallel |-> TRUE,
     timeout_seconds |-> TimeoutSeconds]

\* The plan of n steps with unique ids whose i-th step depends on deps[i].
Plan(n, deps) == [i \in 1..n |-> Step(i, deps[i])]

StepIdSet(st) == {st[i].step_id : i \in 1..Len(st)}

UniqueIds(st) == \A i, j \in 1..Len(st) : st[i].step_id = st[j].step_id => i = j

KnownDeps(st) == \A i \in 1..Len(st) : st[i].depends_on \subseteq StepIdSet(st)

\* The ids reachable from id x along depends_on in at least one hop.
RECURSIVE DepClosure(_, _, _)
DepClosure(st, frontier, seen) ==
    LET next == UNION {st[i].depends_on : i \in {k \in 1..Len(st) : st[k].step_id \in frontier}}
    IN IF next \subseteq seen THEN seen
       ELSE DepClosure(st, next \ seen, seen \cup next)

TransDeps(st, i) == DepClosure(st, {st[i].step_id}, {})

HasCycle(st) == \E i \in 1..Len(st) : st[i].step_id \in TransDeps(st, i)

ValidDag(st) == UniqueIds(st) /\ KnownDeps(st) /\ ~HasCycle(st)

(***************************************************************************)
(* Exceptions and events.                                                  *)
(***************************************************************************)
NoExc == [type |-> "None", args |-> <<>>]

DeadlockError == [type |-> "RuntimeError", args |-> <<"Deadlock detected in plan execution">>]

NoSpecialistError(agent_type) ==
    [type |-> "RuntimeError", args |-> <<"No specialist for ", agent_type>>]

\* Whatever the specialist's analyze raises: opaque to the scheduler.
AnalyzerError == [type |-> "AnalyzerError", args |-> <<>>]

StepEvent(event_type, step) ==
    [event_type |-> event_type, step_id |-> step.step_id, agent_type |-> step.agent_type]

StepStartedEvent(step) == StepEvent("plan_step_started", step)

StepCompletedEvent(step) == StepEvent("plan_step_completed", step)

(***************************************************************************)
(* EventBus.__init__ and SharedContext.__init__; no Event made yet.        *)
(***************************************************************************)
\* The callbacks that subscribe to the bus.
Callbacks == {"callback1", "callback2"}

\* The event types the tests of the bus publish.
EventTypes == {"agent_started", "finding_discovered", "thinking"}

\* subscribe's default event_type=None: every event type.
AllTypes == "None"

\* A callback that has not subscribed yet, and one that has unsubscribed.
NeverSubscribed == "never"

Unsubscribed == "unsubscribed"

\* An empty dict.
EmptyDict == [k \in {} |-> 0]

BusInit ==
    /\ subscribers = EmptyDict
    /\ eventQueue = <<>>
    /\ subscription = [cb \in Callbacks |-> NeverSubscribed]
    /\ published = <<>>
    /\ due = [cb \in Callbacks |-> <<>>]
    /\ delivered = [cb \in Callbacks |-> <<>>]

\* No report call has returned yet.
NoReturn == [op |-> "none", at |-> 0]

StoreInit ==
    /\ findings = <<>>
    /\ report = EmptyDict
    /\ returned = NoReturn
    /\ added = [w \in 1..NumWorkers |-> 0]

\* No Event object, and no call made on one.
NoEvent == [type |-> "None"]

NoCall == [op |-> "none", exc |-> "None"]

WireInit ==
    /\ evt = NoEvent
    /\ wire = EmptyDict
    /\ decoded = NoEvent
    /\ outcome = NoCall

\* The context mappings analyze is called with: run_stage_1_3 passes the
\* store, main.analyze_file passes a filename only.
StageContext == {"shared_context"}

FileContext == {"filename"}

\* analyze has neither returned nor raised.
NoResult == [exc |-> "pending", value |-> EmptyDict]

CallInit ==
    /\ context = StageContext
    /\ result = NoResult

(***************************************************************************)
(* Initial state: a coordinator and a plan in hand.  The plan is any plan   *)
(* of at most MaxSteps steps with unique ids and any dependency relation.  *)
(***************************************************************************)
InitWith(registered) ==
    /\ \E n \in 1..MaxSteps : \E deps \in [1..n -> SUBSET DepUniverse] :
          steps = Plan(n, deps)
    /\ specialists = registered
    /\ pc = "start"
    /\ completed = {}
    /\ running = <<>>
    /\ task = [i \in 1..Len(steps) |-> "none"]
    /\ exc = [i \in 1..Len(steps) |-> NoExc]
    /\ error = NoExc
    /\ events = <<>>
    /\ launches = [i \in 1..Len(steps) |-> 0]
    /\ invoked = [i \in 1..Len(steps) |-> 0]
    /\ elapsed = [i \in 1..Len(steps) |-> 0]
    /\ BusInit
    /\ StoreInit
    /\ WireInit
    /\ CallInit

\* CoordinatorAgent.__init__: no specialist is registered.
Init == InitWith({})

\* The specialists main registers before it calls analyze.
RegisteredByMain == {AgentTypes[k] : k \in 1..Len(AgentTypes)}

\* A run of a valid plan by the coordinator main sets up.
InitDag == InitWith(RegisteredByMain) /\ ValidDag(steps)

(***************************************************************************)
(* register_specialist                                                     *)
(***************************************************************************)
RegisterSpecialist(agent_type) ==
    /\ pc = "start"
    /\ agent_type \notin specialists
    /\ specialists' = specialists \cup {agent_type}
    /\ UNCHANGED <<steps, pc, completed, running, task, exc, error, events,
                   launches, invoked, elapsed>>
    /\ UNCHANGED <<busVars, storeVars, wireVars, callVars>>

(***************************************************************************)
(* _find_ready_steps: the indices of the ready steps, in list order.       *)
(***************************************************************************)
\* Mutant: a dependency counts as satisfied as soon as it is running.
FindReadySteps_DepsRunning(st, comp, run) ==
    {i \in 1..Len(st) :
        /\ ~(st[i].step_id \in comp \/ st[i].step_id \in DOMAIN run)
        /\ \A dep \in st[i].depends_on : dep \in comp \/ dep \in DOMAIN run}

\* Mutant: a step that is running is not skipped.
FindReadySteps_RunningNotSkipped(st, comp, run) ==
    {i \in 1..Len(st) :
        /\ ~(st[i].step_id \in comp)
        /\ \A dep \in st[i].depends_on : dep \in comp}

\* Mutant: a step that declares can_run_parallel false is launched only
\* alone, while nothing else is running.
FindReadySteps_HonoursFlag(st, comp, run) ==
    LET all == {i \in 1..Len(st) :
                   /\ ~(st[i].step_id \in comp \/ st[i].step_id \in DOMAIN run)
                   /\ \A dep \in st[i].depends_on : dep \in comp}
    IN {i \in all : st[i].can_run_parallel
                       \/ (DOMAIN run = {} /\ \A j \in all : i <= j)}

FindReadySteps(st, comp, run) ==
    {i \in 1..Len(st) :
        /\ ~(st[i].step_id \in comp \/ st[i].step_id \in DOMAIN run)
        /\ \A dep \in st[i].depends_on : dep \in comp}

\* The dict `running` after `running[step["step_id"]] = task` for each ready
\* step in list order: a later step with the same id replaces an earlier one.
RunningAfterLaunch(st, run, ready) ==
    LET ids == {st[i].step_id : i \in ready}
        last(id) == CHOOSE i \in ready :
                        /\ st[i].step_id = id
                        /\ \A j \in ready : st[j].step_id = id => j <= i
    IN [id \in (DOMAIN run) \cup ids |-> IF id \in ids THEN last(id) ELSE run[id]]

(***************************************************************************)
(* _execute_plan                                                           *)
(***************************************************************************)
\* Entry: the locals are set up.
ExecutePlan ==
    /\ pc = "start"
    /\ pc' = "loop"
    /\ completed' = {}
    /\ running' = <<>>
    /\ UNCHANGED <<steps, specialists, task, exc, error, events, launches, invoked, elapsed>>
    /\ UNCHANGED <<busVars, storeVars, wireVars, callVars>>

\* The while condition fails: the coroutine returns.
PlanReturn ==
    /\ pc = "loop"
    /\ ~(Cardinality(completed) < Len(steps))
    /\ pc' = "returned"
    /\ UNCHANGED <<steps, specialists, completed, running, task, exc, error,
                   events, launches, invoked, elapsed>>
    /\ UNCHANGED <<busVars, storeVars, wireVars, callVars>>

\* Mutant: the scheduler waits without the `if not running` check.
ScheduleReady_NoDeadlockCheck ==
    /\ pc = "loop"
    /\ Cardinality(completed) < Len(steps)
    /\ LET ready == FindReadySteps(steps, completed, running)
           after == RunningAfterLaunch(steps, running, ready)
       IN /\ running' = after
          /\ task' = [i \in DOMAIN task |-> IF i \in ready THEN "created" ELSE task[i]]
          /\ exc' = [i \in DOMAIN exc |-> IF i \in ready THEN NoExc ELSE exc[i]]
          /\ launches' = [i \in DOMAIN launches |->
                              IF i \in ready THEN launches[i] + 1 ELSE launches[i]]
          /\ elapsed' = [i \in DOMAIN elapsed |-> IF i \in ready THEN 0 ELSE elapsed[i]]
    /\ pc' = "waiting"
    /\ UNCHANGED <<steps, specialists, completed, error, events, invoked>>
    /\ UNCHANGED <<busVars, storeVars, wireVars, callVars>>

\* One round: a task is created for every ready step, and the coroutine
\* suspends in asyncio.wait.
ScheduleReady ==
    /\ pc = "loop"
    /\ Cardinality(completed) < Len(steps)
    /\ LET ready == FindReadySteps(steps, completed, running)
           after == RunningAfterLaunch(steps, running, ready)
       IN /\ DOMAIN after # {}
          /\ running' = after
          /\ task' = [i \in DOMAIN task |-> IF i \in ready THEN "created" ELSE task[i]]
          /\ exc' = [i \in DOMAIN exc |-> IF i \in ready THEN NoExc ELSE exc[i]]
          /\ launches' = [i \in DOMAIN launches |->
                              IF i \in ready THEN launches[i] + 1 ELSE launches[i]]
          /\ elapsed' = [i \in DOMAIN elapsed |-> IF i \in ready THEN 0 ELSE elapsed[i]]
    /\ pc' = "waiting"
    /\ UNCHANGED <<steps, specialists, completed, error, events, invoked>>
    /\ UNCHANGED <<busVars, storeVars, wireVars, callVars>>

\* One round in which nothing is ready and nothing is running.
Deadlock ==
    /\ pc = "loop"
    /\ Cardinality(completed) < Len(steps)
    /\ LET ready == FindReadySteps(steps, completed, running)
       IN DOMAIN RunningAfterLaunch(steps, running, ready) = {}
    /\ error' = DeadlockError
    /\ pc' = "raised"
    /\ UNCHANGED <<steps, specialists, completed, running, task, exc, events,
                   launches, invoked, elapsed>>
    /\ UNCHANGED <<busVars, storeVars, wireVars, callVars>>

Terminal(i) == task[i] \in {"done", "failed"}

\* The tasks asyncio.wait hands back: every tracked task that is done.
DoneTasks == {running[id] : id \in {x \in DOMAIN running : Terminal(running[x])}}

\* asyncio.wait resumes the scheduler once a tracked task is done.  Every
\* task created before the wait has had its first turn by then: the loop
\* runs its callbacks in the order they were scheduled.
\* Mutant: asyncio.wait with return_when=ALL_COMPLETED.
WaitReturns_AllCompleted ==
    /\ pc = "waiting"
    /\ DoneTasks # {}
    /\ \A id \in DOMAIN running : Terminal(running[id])
    /\ \A i \in DOMAIN task : task[i] # "created"

WaitReturns ==
    /\ pc = "waiting"
    /\ DoneTasks # {}
    /\ \A i \in DOMAIN task : task[i] # "created"

Without(run, ids) == [id \in (DOMAIN run) \ ids |-> run[id]]

\* Mutant: every task of `done` is recorded, failed or not.
ProcessDone_FailedRecorded ==
    /\ WaitReturns
    /\ completed' = completed \cup {steps[i].step_id : i \in DoneTasks}
    /\ running' = Without(running, {steps[i].step_id : i \in DoneTasks})
    /\ pc' = "loop"
    /\ UNCHANGED <<steps, specialists, task, exc, error, events, launches, invoked, elapsed>>
    /\ UNCHANGED <<busVars, storeVars, wireVars, callVars>>

\* `for finished in done`, no task of `done` failed: each is recorded.
ProcessDone ==
    /\ WaitReturns
    /\ \A i \in DoneTasks : task[i] = "done"
    /\ completed' = completed \cup {steps[i].step_id : i \in DoneTasks}
    /\ running' = Without(running, {steps[i].step_id : i \in DoneTasks})
    /\ pc' = "loop"
    /\ UNCHANGED <<steps, specialists, task, exc, error, events, launches, invoked, elapsed>>
    /\ UNCHANGED <<busVars, storeVars, wireVars, callVars>>

\* `for finished in done`, some task of `done` failed: `await finished`
\* re-raises its exception out of _execute_plan.  `done` is a set, so any
\* of the successful tasks may have been recorded before it.
ProcessDoneRaise ==
    /\ WaitReturns
    /\ \E f \in {i \in DoneTasks : task[i] = "failed"} :
       \E before \in SUBSET {i \in DoneTasks : task[i] = "done"} :
          /\ completed' = completed \cup {steps[i].step_id : i \in before}
          /\ running' = Without(running, {steps[i].step_id : i \in before})
          /\ error' = exc[f]
    /\ pc' = "raised"
    /\ UNCHANGED <<steps, specialists, task, exc, events, launches, invoked, elapsed>>
    /\ UNCHANGED <<busVars, storeVars, wireVars, callVars>>

(***************************************************************************)
(* _run_step                                                               *)
(***************************************************************************)
\* A task runs only while the scheduler is suspended or gone.
TaskMayRun == pc \in {"waiting", "returned", "raised"}

\* What the task does up to its first suspension: the step-started event,
\* the specialist lookup, and the call of analyze.
\* Mutant: the specialist is called without the lookup being checked.
RunStepBegin_NoLookupCheck(i) ==
    [events |-> Append(events, StepStartedEvent(steps[i])),
     task |-> "analyzing", exc |-> NoExc, invoked |-> invoked[i] + 1]

\* Mutant: the step-completed event is published before analyze is awaited.
RunStepBegin_CompletedBeforeAnalyze(i) ==
    IF steps[i].agent_type \in specialists
    THEN [events |-> Append(Append(events, StepStartedEvent(steps[i])),
                            StepCompletedEvent(steps[i])),
          task |-> "analyzing", exc |-> NoExc, invoked |-> invoked[i] + 1]
    ELSE [events |-> Append(events, StepStartedEvent(steps[i])),
          task |-> "failed", exc |-> NoSpecialistError(steps[i].agent_type),
          invoked |-> invoked[i]]

RunStepBegin(i) ==
    IF steps[i].agent_type \in specialists
    THEN [events |-> Append(events, StepStartedEvent(steps[i])),
          task |-> "analyzing", exc |-> NoExc, invoked |-> invoked[i] + 1]
    ELSE [events |-> Append(events, StepStartedEvent(steps[i])),
          task |-> "failed", exc |-> NoSpecialistError(steps[i].agent_type),
          invoked |-> invoked[i]]

\* What the task does once analyze has returned: the step-completed event.
RunStepEnd(i) ==
    [events |-> Append(events, StepCompletedEvent(steps[i])), task |-> "done"]

StepBegin(i) ==
    /\ TaskMayRun
    /\ i \in DOMAIN task
    /\ task[i] = "created"
    /\ LET r == RunStepBegin(i)
       IN /\ events' = r.events
          /\ task' = [task EXCEPT ![i] = r.task]
          /\ exc' = [exc EXCEPT ![i] = r.exc]
          /\ invoked' = [invoked EXCEPT ![i] = r.invoked]
    /\ UNCHANGED <<steps, specialists, pc, completed, running, error, launches,
                   elapsed>>
    /\ UNCHANGED <<busVars, storeVars, wireVars, callVars>>

AnalyzeReturns(i) ==
    /\ TaskMayRun
    /\ i \in DOMAIN task
    /\ task[i] = "analyzing"
    /\ LET r == RunStepEnd(i)
       IN /\ events' = r.events
          /\ task' = [task EXCEPT ![i] = r.task]
    /\ UNCHANGED <<steps, specialists, pc, completed, running, exc, error,
                   launches, invoked, elapsed>>
    /\ UNCHANGED <<busVars, storeVars, wireVars, callVars>>

AnalyzeRaises(i) ==
    /\ TaskMayRun
    /\ i \in DOMAIN task
    /\ task[i] = "analyzing"
    /\ task' = [task EXCEPT ![i] = "failed"]
    /\ exc' = [exc EXCEPT ![i] = AnalyzerError]
    /\ UNCHANGED <<steps, specialists, pc, completed, running, error, events,
                   launches, invoked, elapsed>>
    /\ UNCHANGED <<busVars, storeVars, wireVars, callVars>>

\* A second passes while some worker is inside analyze.  _run_step awaits
\* analyze with no deadline: timeout_seconds is read nowhere, so the clock
\* changes nothing but the time the step has been waiting.  The clock of a
\* step stops one second past its timeout_seconds.
Overdue(i) == elapsed[i] > steps[i].timeout_seconds

Tick ==
    /\ TaskMayRun
    /\ \E i \in DOMAIN task : task[i] = "analyzing" /\ ~Overdue(i)
    /\ elapsed' = [i \in DOMAIN elapsed |->
                      IF task[i] = "analyzing" /\ ~Overdue(i)
                      THEN elapsed[i] + 1 ELSE elapsed[i]]
    /\ UNCHANGED <<steps, specialists, pc, completed, running, task, exc, error,
                   events, launches, invoked>>
    /\ UNCHANGED <<busVars, storeVars, wireVars, callVars>>

(***************************************************************************)
(* EventBus.  Every method of the class has the body `pass`: a call        *)
(* returns None and leaves _subscribers and _event_queue as they were, and *)
(* no callback is ever invoked.  subscription, published and due record    *)
(* what the callers asked for; delivered records what the bus did.         *)
(***************************************************************************)
Live(cb) == subscription[cb] \notin {NeverSubscribed, Unsubscribed}

\* The event_type filter a callback subscribed with lets the event through.
Wants(cb, event) == subscription[cb] \in {AllTypes, event.event_type}

\* Event.__init__: event_id is fresh for every event.
NewEvent(event_type) == [event_id |-> Len(published) + 1, event_type |-> event_type]

\* subscribe(callback, event_type)
Subscribe(cb, event_type) ==
    /\ ~Live(cb)
    /\ subscription' = [subscription EXCEPT ![cb] = event_type]
    /\ UNCHANGED <<subscribers, eventQueue, published, due, delivered>>
    /\ UNCHANGED <<coordVars, storeVars, wireVars, callVars>>

\* unsubscribe(callback, event_type)
Unsubscribe(cb) ==
    /\ Live(cb)
    /\ subscription' = [subscription EXCEPT ![cb] = Unsubscribed]
    /\ UNCHANGED <<subscribers, eventQueue, published, due, delivered>>
    /\ UNCHANGED <<coordVars, storeVars, wireVars, callVars>>

\* publish(event)
Publish(event) ==
    /\ Len(published) < MaxPublished
    /\ published' = Append(published, event)
    /\ due' = [cb \in Callbacks |->
                  IF Live(cb) /\ Wants(cb, event) THEN Append(due[cb], event) ELSE due[cb]]
    /\ UNCHANGED <<subscribers, eventQueue, subscription, delivered>>
    /\ UNCHANGED <<coordVars, storeVars, wireVars, callVars>>

\* get_event(timeout): returns None.
GetEvent ==
    /\ UNCHANGED <<subscribers, eventQueue, subscription, published, due, delivered>>
    /\ UNCHANGED <<coordVars, storeVars, wireVars, callVars>>

(***************************************************************************)
(* SharedContext.  A finding is a dict; a key the dict lacks is Missing.   *)
(* The methods have no suspension point, so each call is one atomic        *)
(* action of the event loop.                                               *)
(***************************************************************************)
Missing == "<missing>"

SEVERITY_WEIGHTS == [critical |-> 4, high |-> 3, medium |-> 2, low |-> 1]

\* f.get("severity", "low")
SeverityOf(f) == IF f.severity = Missing THEN "low" ELSE f.severity

\* f.get("agent_type", "unknown")
AgentOf(f) == IF f.agent_type = Missing THEN "unknown" ELSE f.agent_type

\* _rank_severity's score: SEVERITY_WEIGHTS.get(f.get("severity", "low"), 1)
Score(f) ==
    IF SeverityOf(f) \in DOMAIN SEVERITY_WEIGHTS THEN SEVERITY_WEIGHTS[SeverityOf(f)] ELSE 1

\* _deduplicate's key
DedupKey(f) == <<f.category, f.line, f.description>>

\* _deduplicate's loop from position k on, with the keys seen so far.
RECURSIVE DedupLoop(_, _, _, _)
DedupLoop(fs, k, seen, unique) ==
    IF k > Len(fs) THEN unique
    ELSE IF DedupKey(fs[k]) \in seen
         THEN DedupLoop(fs, k + 1, seen, unique)
         ELSE DedupLoop(fs, k + 1, seen \cup {DedupKey(fs[k])}, Append(unique, fs[k]))

Reversed(fs) == [k \in 1..Len(fs) |-> fs[Len(fs) + 1 - k]]

\* Mutant: of the findings with one key, the last inserted is kept.
Deduplicate_KeepsLast(fs) == Reversed(DedupLoop(Reversed(fs), 1, {}, <<>>))

\* Mutant: a key that occurs twice is dropped altogether.
Deduplicate_DropsRepeatedKeys(fs) ==
    SelectSeq(fs, LAMBDA f :
        Cardinality({k \in 1..Len(fs) : DedupKey(fs[k]) = DedupKey(f)}) = 1)

Deduplicate(fs) == DedupLoop(fs, 1, {}, <<>>)

\* sorted(findings, key=score, reverse=True) is a stable sort: a finding
\* goes behind every finding already placed whose score is not lower.
\* Mutant: a finding goes before the placed findings of its own score.
InsertRanked_BeforeEqual(ranked, f) ==
    LET n == Cardinality({p \in 1..Len(ranked) : Score(ranked[p]) > Score(f)})
    IN SubSeq(ranked, 1, n) \o <<f>> \o SubSeq(ranked, n + 1, Len(ranked))

InsertRanked(ranked, f) ==
    LET n == Cardinality({p \in 1..Len(ranked) : Score(ranked[p]) >= Score(f)})
    IN SubSeq(ranked, 1, n) \o <<f>> \o SubSeq(ranked, n + 1, Len(ranked))

RECURSIVE RankLoop(_, _, _)
RankLoop(fs, k, ranked) ==
    IF k > Len(fs) THEN ranked ELSE RankLoop(fs, k + 1, InsertRanked(ranked, fs[k]))

RankSeverity(fs) == RankLoop(fs, 1, <<>>)

\* _build_summary: the three accumulators after the loop.
SeverityCount(fs) ==
    [s \in {SeverityOf(fs[k]) : k \in 1..Len(fs)} |->
        Cardinality({k \in 1..Len(fs) : SeverityOf(fs[k]) = s})]

AgentCount(fs) ==
    [a \in {AgentOf(fs[k]) : k \in 1..Len(fs)} |->
        Cardinality({k \in 1..Len(fs) : AgentOf(fs[k]) = a})]

RECURSIVE RiskScore(_)
RiskScore(fs) == IF fs = <<>> THEN 0 ELSE Score(Head(fs)) + RiskScore(Tail(fs))

BuildSummary(fs) ==
    [risk_score |-> RiskScore(fs),
     severity_breakdown |-> SeverityCount(fs),
     agent_breakdown |-> AgentCount(fs)]

EmptyReport ==
    [total_findings |-> 0, risk_score |-> 0, severity_breakdown |-> EmptyDict,
     agent_breakdown |-> EmptyDict, findings |-> <<>>]

\* consolidate: the report it stores and returns.
\* Mutant: the summary is built from the stored findings, duplicates included.
ConsolidateReport_SummaryOfStored(fs) ==
    IF fs = <<>> THEN EmptyReport
    ELSE LET merged == Deduplicate(fs)
             ranked == RankSeverity(merged)
             summary == BuildSummary(fs)
         IN [total_findings |-> Len(ranked),
             risk_score |-> summary.risk_score,
             severity_breakdown |-> summary.severity_breakdown,
             agent_breakdown |-> summary.agent_breakdown,
             findings |-> ranked]

ConsolidateReport(fs) ==
    IF fs = <<>> THEN EmptyReport
    ELSE LET merged == Deduplicate(fs)
             ranked == RankSeverity(merged)
             summary == BuildSummary(ranked)
         IN [total_findings |-> Len(ranked),
             risk_score |-> summary.risk_score,
             severity_breakdown |-> summary.severity_breakdown,
             agent_breakdown |-> summary.agent_breakdown,
             findings |-> ranked]

\* get_report: the report it leaves in _report and returns.
\* Mutant: _report is returned as it is.
GetReportResult_NotConsolidated(rep, fs) == rep

GetReportResult(rep, fs) == IF rep = EmptyDict THEN ConsolidateReport(fs) ELSE rep

\* add_finding: self._findings.append(finding)
\* Mutant: the append overwrites the last stored finding.
AfterAppend_Overwrites(fs, f) ==
    IF fs = <<>> THEN <<f>> ELSE [fs EXCEPT ![Len(fs)] = f]

\* Mutant: the finding is put in front of the stored ones.
AfterAppend_Prepends(fs, f) == <<f>> \o fs

AfterAppend(fs, f) == Append(fs, f)

AddFinding(f) ==
    /\ findings' = AfterAppend(findings, f)
    /\ UNCHANGED <<report, returned>>
    /\ UNCHANGED <<coordVars, busVars, wireVars, callVars>>

Consolidate ==
    /\ report' = ConsolidateReport(findings)
    /\ returned' = [op |-> "consolidate", at |-> Len(findings)]
    /\ UNCHANGED <<findings, added>>
    /\ UNCHANGED <<coordVars, busVars, wireVars, callVars>>

GetReport ==
    /\ report' = GetReportResult(report, findings)
    /\ returned' = [op |-> "get_report", at |-> Len(findings)]
    /\ UNCHANGED <<findings, added>>
    /\ UNCHANGED <<coordVars, busVars, wireVars, callVars>>

\* get_all_findings: returns list(self._findings), a new list.
GetAllFindings ==
    /\ returned' = [op |-> "get_all_findings", at |-> Len(findings)]
    /\ UNCHANGED <<findings, report, added>>
    /\ UNCHANGED <<coordVars, busVars, wireVars, callVars>>

\* The findings a caller of the store adds, all of one category.  Two lines
\* come with every severity of SEVERITY_WEIGHTS, with one unknown severity
\* and with none; a third line comes with the two middle severities.  The
\* finding of the first line names its agent.
Lines == {10, 20}

SeverityTags == DOMAIN SEVERITY_WEIGHTS \cup {"info", Missing}

Finding(line, severity) ==
    [category |-> "sqli", line |-> line, description |-> "x",
     severity |-> severity,
     agent_type |-> IF line = 10 THEN "security" ELSE Missing]

Findings ==
    {Finding(line, severity) : line \in Lines, severity \in SeverityTags}
        \cup {Finding(30, "high"), Finding(30, "medium")}

CallerAdds ==
    /\ Len(findings) < MaxFindings
    /\ \E f \in Findings : AddFinding(f)
    /\ UNCHANGED added

\* The j-th finding of worker w: its key differs from every other one.
WorkerFinding(w, j) ==
    [category |-> "race_condition", line |-> (w - 1) * AddsPerWorker + j,
     description |-> "unsynchronised access",
     severity |-> "high", agent_type |-> AgentTypeOf(w)]

WorkerAdds(w) ==
    /\ added[w] < AddsPerWorker
    /\ AddFinding(WorkerFinding(w, added[w] + 1))
    /\ added' = [added EXCEPT ![w] = added[w] + 1]

(***************************************************************************)
(* Event (events/event_types.py).  A text is the sequence of its pieces;   *)
(* a datetime is its second, its microsecond and its tzinfo, on one fixed  *)
(* day and minute.                                                         *)
(***************************************************************************)
\* The members of the enum EventType the model uses.
EventTypeMembers ==
    {[name |-> "AGENT_STARTED", value |-> "agent_started"],
     [name |-> "THINKING", value |-> "thinking"],
     [name |-> "FINDING_DISCOVERED", value |-> "finding_discovered"],
     [name |-> "PLAN_STEP_STARTED", value |-> "plan_step_started"]}

\* EventType(tag): the member with this value; ValueError when there is none.
IsEventTypeTag(tag) == \E m \in EventTypeMembers : m.value = tag

EventTypeOfTag(tag) == CHOOSE m \in EventTypeMembers : m.value = tag

Seconds == {0, 30}

Microseconds == {0, 500000}

\* The datetimes datetime.utcnow() returns: they carry no tzinfo.
Datetimes ==
    [type : {"datetime"}, second : Seconds, microsecond : Microseconds,
     tzinfo : {"None"}]

TimeText(second) == IF second = 0 THEN "10:30:00" ELSE "10:30:30"

MicroText(microsecond) == IF microsecond = 500000 THEN ".500000" ELSE ".000000"

\* datetime.isoformat(): the microseconds are written unless they are 0,
\* the UTC offset is written for an aware datetime.
\* Mutant: the microseconds are never written.
IsoFormat_NoMicroseconds(dt) ==
    <<"2024-01-15", "T", TimeText(dt.second)>>
        \o (IF dt.tzinfo = "UTC" THEN <<"+00:00">> ELSE <<>>)

IsoFormat(dt) ==
    <<"2024-01-15", "T", TimeText(dt.second)>>
        \o (IF dt.microsecond = 0 THEN <<>> ELSE <<MicroText(dt.microsecond)>>)
        \o (IF dt.tzinfo = "UTC" THEN <<"+00:00">> ELSE <<>>)

\* str.rstrip("Z"): every trailing Z is removed.
RECURSIVE RStripZ(_)
RStripZ(text) ==
    IF text # <<>> /\ text[Len(text)] = "Z"
    THEN RStripZ(SubSeq(text, 1, Len(text) - 1))
    ELSE text

\* datetime.fromisoformat(text): ok is FALSE for a ValueError.
FromIsoFormat(text) ==
    LET n == Len(text)
        based == /\ n >= 3
                 /\ text[1] = "2024-01-15"
                 /\ text[2] = "T"
                 /\ \E sec \in Seconds : TimeText(sec) = text[3]
        rest == SubSeq(text, 4, n)
        micro == rest # <<>> /\ \E u \in Microseconds : MicroText(u) = rest[1]
        zone == IF micro THEN Tail(rest) ELSE rest
    IN IF based /\ zone \in {<<>>, <<"+00:00">>}
       THEN [ok |-> TRUE,
             value |-> [type |-> "datetime",
                        second |-> CHOOSE sec \in Seconds : TimeText(sec) = text[3],
                        microsecond |-> IF micro
                                        THEN CHOOSE u \in Microseconds : MicroText(u) = rest[1]
                                        ELSE 0,
                        tzinfo |-> IF zone = <<>> THEN "None" ELSE "UTC"]]
       ELSE [ok |-> FALSE, value |-> NoEvent]

\* str(uuid.uuid4()) as the default of Event.event_id and in from_dict.
DefaultUuid == "uuid-of-init"

FreshUuid == "uuid-of-from_dict"

EventIds == {"test-123", DefaultUuid}

CorrelationIds == {"None", "run-1"}

Payloads == {EmptyDict, [chunk |-> "Analyzing code..."]}

\* Event(event_type, agent_id, data, timestamp, event_id, correlation_id)
MakeEvent(event_type, data, timestamp, event_id, correlation_id) ==
    [event_type |-> event_type, agent_id |-> "coordinator", data |-> data,
     timestamp |-> timestamp, event_id |-> event_id,
     correlation_id |-> correlation_id]

\* The events whose fields have the types the dataclass declares, the
\* timestamp being the default (utcnow) or given.
TypedEvents ==
    {MakeEvent(m, d, ts, id, corr) :
        m \in EventTypeMembers, d \in Payloads, ts \in Datetimes,
        id \in EventIds, corr \in CorrelationIds}

\* BaseAgent._emit_event: timestamp=datetime.utcnow().isoformat() + "Z"
EmittedEvent(event_type, data, now) ==
    MakeEvent(event_type, data, [type |-> "str", text |-> IsoFormat(now) \o <<"Z">>],
              DefaultUuid, "None")

EmittedEvents ==
    {EmittedEvent(m, d, now) :
        m \in EventTypeMembers, d \in Payloads,
        now \in Datetimes}

\* Event.to_dict: a str has no isoformat.
ToDict(e) ==
    IF e.timestamp.type = "datetime"
    THEN [exc |-> "None",
          value |-> [event_id |-> e.event_id,
                     event_type |-> e.event_type.value,
                     agent_id |-> e.agent_id,
                     timestamp |-> IsoFormat(e.timestamp) \o <<"Z">>,
                     correlation_id |-> e.correlation_id,
                     data |-> e.data]]
    ELSE [exc |-> "AttributeError", value |-> EmptyDict]

\* Event.from_dict: the keyword arguments are evaluated in order.
FromDict(d) ==
    IF "event_type" \notin DOMAIN d THEN [exc |-> "KeyError", value |-> NoEvent]
    ELSE IF ~IsEventTypeTag(d.event_type) THEN [exc |-> "ValueError", value |-> NoEvent]
    ELSE IF "agent_id" \notin DOMAIN d THEN [exc |-> "KeyError", value |-> NoEvent]
    ELSE IF "timestamp" \notin DOMAIN d THEN [exc |-> "KeyError", value |-> NoEvent]
    ELSE LET parsed == FromIsoFormat(RStripZ(d.timestamp))
         IN IF ~parsed.ok THEN [exc |-> "ValueError", value |-> NoEvent]
            ELSE [exc |-> "None",
                  value |-> [event_id |-> IF "event_id" \in DOMAIN d
                                          THEN d.event_id ELSE FreshUuid,
                             event_type |-> EventTypeOfTag(d.event_type),
                             agent_id |-> d.agent_id,
                             timestamp |-> parsed.value,
                             correlation_id |-> IF "correlation_id" \in DOMAIN d
                                                THEN d.correlation_id ELSE "None",
                             data |-> IF "data" \in DOMAIN d THEN d.data ELSE EmptyDict]]

\* The wire dict of the test of from_dict, and the dicts that lack some of
\* its keys.
TestWire ==
    [event_id |-> "test-123", event_type |-> "thinking", agent_id |-> "coordinator",
     timestamp |-> <<"2024-01-15", "T", "10:30:00", "Z">>,
     data |-> [chunk |-> "Analyzing code..."]]

Restricted(d, keys) == [k \in keys |-> d[k]]

WireDicts == {Restricted(TestWire, keys) : keys \in (SUBSET DOMAIN TestWire) \ {{}}}

\* An Event is made with fields of the declared types.
Construct ==
    /\ \E e \in TypedEvents : evt' = e
    /\ wire' = EmptyDict
    /\ decoded' = NoEvent
    /\ outcome' = [op |-> "Event", exc |-> "None"]
    /\ UNCHANGED <<coordVars, busVars, storeVars, callVars>>

\* An Event is made by _emit_event.
Emit ==
    /\ \E e \in EmittedEvents : evt' = e
    /\ wire' = EmptyDict
    /\ decoded' = NoEvent
    /\ outcome' = [op |-> "_emit_event", exc |-> "None"]
    /\ UNCHANGED <<coordVars, busVars, storeVars, callVars>>

\* event.to_dict()
ToDictCall ==
    /\ evt # NoEvent
    /\ wire' = ToDict(evt).value
    /\ decoded' = NoEvent
    /\ outcome' = [op |-> "to_dict", exc |-> ToDict(evt).exc]
    /\ UNCHANGED evt
    /\ UNCHANGED <<coordVars, busVars, storeVars, callVars>>

\* A wire dict arrives from outside.
Receive ==
    /\ \E d \in WireDicts : wire' = d
    /\ evt' = NoEvent
    /\ decoded' = NoEvent
    /\ outcome' = [op |-> "receive", exc |-> "None"]
    /\ UNCHANGED <<coordVars, busVars, storeVars, callVars>>

\* Event.from_dict(wire)
FromDictCall ==
    /\ wire # EmptyDict
    /\ decoded' = FromDict(wire).value
    /\ outcome' = [op |-> "from_dict", exc |-> FromDict(wire).exc]
    /\ UNCHANGED <<evt, wire>>
    /\ UNCHANGED <<coordVars, busVars, storeVars, callVars>>

(***************************************************************************)
(* CoordinatorAgent.analyze, from the return of _execute_plan on: what     *)
(* comes before (the two events, the plan the planner answers) is the      *)
(* initial state of a run.                                                 *)
(***************************************************************************)
\* _consolidate_results: {} when the context has no shared_context entry
\* (a SharedContext object is truthy), else shared_context.get_report().
ConsolidateResults(ctx, rep, fs) ==
    IF "shared_context" \notin ctx THEN EmptyDict ELSE GetReportResult(rep, fs)

\* report['risk_score'] is read for the agent_completed event, then the
\* report is returned.
AnalyzeResult(rep) ==
    IF "risk_score" \in DOMAIN rep
    THEN [exc |-> "None", value |-> rep]
    ELSE [exc |-> "KeyError", value |-> EmptyDict]

\* _execute_plan has returned: the report is queried and returned.
AnalyzeConsolidates ==
    /\ pc = "returned"
    /\ result = NoResult
    /\ result' = AnalyzeResult(ConsolidateResults(context, report, findings))
    /\ IF "shared_context" \in context
       THEN /\ report' = GetReportResult(report, findings)
            /\ returned' = [op |-> "get_report", at |-> Len(findings)]
       ELSE UNCHANGED <<report, returned>>
    /\ UNCHANGED <<findings, added, context>>
    /\ UNCHANGED <<coordVars, busVars, wireVars>>

\* _execute_plan has raised: analyze lets the exception through.
AnalyzePropagates ==
    /\ pc = "raised"
    /\ result = NoResult
    /\ result' = [exc |-> error.type, value |-> EmptyDict]
    /\ UNCHANGED context
    /\ UNCHANGED <<coordVars, busVars, storeVars, wireVars>>

(***************************************************************************)
(* Specifications.                                                         *)
(***************************************************************************)
Register == \E k \in 1..Len(AgentTypes) : RegisterSpecialist(AgentTypes[k])

Begin == \E i \in 1..MaxSteps : StepBegin(i)

Returns == \E i \in 1..MaxSteps : AnalyzeReturns(i)

Raises == \E i \in 1..MaxSteps : AnalyzeRaises(i)

\* The steps of the scheduler coroutine.
Scheduler ==
    \/ ExecutePlan
    \/ PlanReturn
    \/ ScheduleReady
    \/ Deadlock
    \/ ProcessDone
    \/ ProcessDoneRaise

\* Any plan, any set of registered specialists, workers that return, raise
\* or never come back.
Next ==
    \/ Register
    \/ Scheduler
    \/ Begin
    \/ Returns
    \/ Raises

Spec == Init /\ [][Next]_vars

\* The event loop runs every callback that is ready: the scheduler and the
\* first turn of a created task are never starved.  Nothing makes a worker
\* come back.
FairSpec == Spec /\ WF_vars(Scheduler) /\ WF_vars(Begin)

\* A valid plan, every specialist registered, every worker returns.
NextDag ==
    \/ ExecutePlan
    \/ PlanReturn
    \/ ScheduleReady
    \/ ProcessDone
    \/ Begin
    \/ Returns

DagSpec ==
    /\ InitDag
    /\ [][NextDag]_vars
    /\ WF_vars(ExecutePlan \/ PlanReturn \/ ScheduleReady \/ ProcessDone)
    /\ \A i \in 1..MaxSteps : WF_vars(StepBegin(i)) /\ WF_vars(AnalyzeReturns(i))

\* A valid plan, every specialist registered; the event loop runs the
\* scheduler and the first turn of every task, and nothing makes a worker
\* come back from analyze.
LazySpec ==
    /\ InitDag
    /\ [][NextDag]_vars
    /\ WF_vars(ExecutePlan \/ PlanReturn \/ ScheduleReady \/ ProcessDone)
    /\ \A i \in 1..MaxSteps : WF_vars(StepBegin(i))

\* The plan of n steps whose i-th step has the id ids[i]: plan["steps"] is
\* taken as the planner's JSON gives it, so an id may repeat.
PlanWithIds(n, ids, deps) ==
    [i \in 1..n |-> [Step(i, deps[i]) EXCEPT !.step_id = ids[i]]]

\* A run of a plan whose step ids may repeat, every specialist registered.
\* The steps are listed in dependency order: a step depends on ids of
\* earlier steps only.
InitDup ==
    /\ \E n \in 1..MaxSteps :
       \E ids \in [1..n -> DepUniverse] :
       \E deps \in [1..n -> SUBSET DepUniverse] :
          /\ \A i \in 1..n : \E k \in 1..i : ids[i] = StepIds[k]
          /\ \A i \in 1..n : deps[i] \subseteq {ids[j] : j \in 1..(i - 1)}
          /\ steps = PlanWithIds(n, ids, deps)
    /\ specialists = RegisteredByMain
    /\ pc = "start"
    /\ completed = {}
    /\ running = <<>>
    /\ task = [i \in 1..Len(steps) |-> "none"]
    /\ exc = [i \in 1..Len(steps) |-> NoExc]
    /\ error = NoExc
    /\ events = <<>>
    /\ launches = [i \in 1..Len(steps) |-> 0]
    /\ invoked = [i \in 1..Len(steps) |-> 0]
    /\ elapsed = [i \in 1..Len(steps) |-> 0]
    /\ BusInit
    /\ StoreInit
    /\ WireInit
    /\ CallInit

NextDup ==
    \/ Scheduler
    \/ Begin
    \/ Returns
    \/ Raises

DupSpec == InitDup /\ [][NextDup]_vars

\* analyze called by either caller on a valid plan, every specialist
\* registered; the store holds what was added to it before the call.
InitAnalyze ==
    /\ \E n \in 1..MaxSteps : \E deps \in [1..n -> SUBSET DepUniverse] :
          steps = Plan(n, deps)
    /\ ValidDag(steps)
    /\ specialists = RegisteredByMain
    /\ pc = "start"
    /\ completed = {}
    /\ running = <<>>
    /\ task = [i \in 1..Len(steps) |-> "none"]
    /\ exc = [i \in 1..Len(steps) |-> NoExc]
    /\ error = NoExc
    /\ events = <<>>
    /\ launches = [i \in 1..Len(steps) |-> 0]
    /\ invoked = [i \in 1..Len(steps) |-> 0]
    /\ elapsed = [i \in 1..Len(steps) |-> 0]
    /\ BusInit
    /\ findings \in {<<>>, <<Finding(10, "high")>>}
    /\ report = EmptyDict
    /\ returned = NoReturn
    /\ added = [w \in 1..NumWorkers |-> 0]
    /\ WireInit
    /\ context \in {StageContext, FileContext}
    /\ result = NoResult

NextAnalyze ==
    \/ ExecutePlan
    \/ PlanReturn
    \/ ScheduleReady
    \/ ProcessDone
    \/ ProcessDoneRaise
    \/ Begin
    \/ Returns
    \/ Raises
    \/ AnalyzeConsolidates
    \/ AnalyzePropagates

AnalyzeSpec == InitAnalyze /\ [][NextAnalyze]_vars

\* A run of a valid plan whose steps declare can_run_parallel true or
\* false as the planner's JSON says, every specialist registered.  The
\* steps are listed in dependency order.
InitFlags ==
    /\ \E n \in 1..MaxSteps :
       \E deps \in [1..n -> SUBSET DepUniverse] :
       \E flags \in [1..n -> BOOLEAN] :
          /\ \A i \in 1..n : deps[i] \subseteq {StepIds[j] : j \in 1..(i - 1)}
          /\ steps = [i \in 1..n |->
                         [Step(i, deps[i]) EXCEPT !.can_run_parallel = flags[i]]]
    /\ ValidDag(steps)
    /\ specialists = RegisteredByMain
    /\ pc = "start"
    /\ completed = {}
    /\ running = <<>>
    /\ task = [i \in 1..Len(steps) |-> "none"]
    /\ exc = [i \in 1..Len(steps) |-> NoExc]
    /\ error = NoExc
    /\ events = <<>>
    /\ launches = [i \in 1..Len(steps) |-> 0]
    /\ invoked = [i \in 1..Len(steps) |-> 0]
    /\ elapsed = [i \in 1..Len(steps) |-> 0]
    /\ BusInit
    /\ StoreInit
    /\ WireInit
    /\ CallInit

FlagSpec == InitFlags /\ [][NextDag]_vars

\* Any run, with the clock.
NextTimed == Next \/ Tick

TimedSpec == Init /\ [][NextTimed]_vars

\* A bus of its own, as the tests of the bus construct it: no plan is run.
NoPlan ==
    /\ steps = <<>>
    /\ specialists = {}
    /\ pc = "start"
    /\ completed = {}
    /\ running = <<>>
    /\ task = <<>>
    /\ exc = <<>>
    /\ error = NoExc
    /\ events = <<>>
    /\ launches = <<>>
    /\ invoked = <<>>
    /\ elapsed = <<>>

InitBus == NoPlan /\ BusInit /\ StoreInit /\ WireInit /\ CallInit

SubscribeCall == \E cb \in Callbacks : \E t \in EventTypes \cup {AllTypes} : Subscribe(cb, t)

UnsubscribeCall == \E cb \in Callbacks : Unsubscribe(cb)

PublishCall == \E t \in EventTypes : Publish(NewEvent(t))

NextBus ==
    \/ SubscribeCall
    \/ UnsubscribeCall
    \/ PublishCall
    \/ GetEvent

BusSpec == InitBus /\ [][NextBus]_vars

\* A store of its own, with callers that add findings and ask for reports.
InitStore == NoPlan /\ BusInit /\ StoreInit /\ WireInit /\ CallInit

NextStore ==
    \/ CallerAdds
    \/ Consolidate
    \/ GetReport
    \/ GetAllFindings

StoreSpec == InitStore /\ [][NextStore]_vars

\* NumWorkers concurrently running steps that add AddsPerWorker findings
\* each, and a caller that asks for reports meanwhile.
Adds == \E w \in 1..NumWorkers : WorkerAdds(w)

NextWorkers ==
    \/ Adds
    \/ Consolidate
    \/ GetReport

WorkersSpec == InitStore /\ [][NextWorkers]_vars

\* Events made, converted to the wire form and back.
InitWire == NoPlan /\ BusInit /\ StoreInit /\ WireInit /\ CallInit

NextWire ==
    \/ Construct
    \/ Emit
    \/ ToDictCall
    \/ Receive
    \/ FromDictCall

WireSpec == InitWire /\ [][NextWire]_vars

(***************************************************************************)
(* What the claims read off a state.                                       *)
(***************************************************************************)
\* The positions in the publish order of the events of one type for step i.
EventsAt(event_type, i) ==
    {k \in 1..Len(events) :
        events[k].event_type = event_type /\ events[k].step_id = steps[i].step_id}

StartedAt(i) == EventsAt("plan_step_started", i)

CompletedAt(i) == EventsAt("plan_step_completed", i)

\* A task has been created for step i.
Launched(i) == task[i] # "none" \/ launches[i] > 0

\* The task of step i has had its first turn.
Begun(i) == task[i] \notin {"none", "created"}

NothingLaunched ==
    /\ \A i \in DOMAIN task : ~Launched(i) /\ invoked[i] = 0
    /\ events = <<>>

\* The step ids of the plan that an exception's arguments contain.
StepIdsNamedBy(e) ==
    {id \in StepIdSet(steps) : \E k \in 1..Len(e.args) : e.args[k] = id}

Names(e, x) == \E k \in 1..Len(e.args) : e.args[k] = x

Unregistered(i) == pc # "start" /\ steps[i].agent_type \notin specialists

(***************************************************************************)
(* The claims.                                                             *)
(***************************************************************************)
\* C1: in every run on a plan with unique step ids, under every interleaving
\* of worker completions, a step is launched (its task created, its
\* step-started event published) only when every id in its depends_on is in
\* the scheduler's completed set; a dependency that is only running does not
\* make the dependent ready.
C1_LaunchedOnlyAfterDepsCompleted ==
    \A i \in DOMAIN task :
        (Launched(i) \/ StartedAt(i) # {}) => steps[i].depends_on \subseteq completed

\* A step with two dependencies has published its step-started event.
C1_Witness ==
    \E i \in DOMAIN task :
        /\ Cardinality(steps[i].depends_on) >= 2
        /\ Launched(i)
        /\ StartedAt(i) # {}

\* C2: for a valid DAG whose workers are all registered and all return
\* without error, _execute_plan eventually returns normally; when it has
\* returned, every step was launched exactly once and completed exactly
\* once, and no step event is published afterwards.
C2_ValidDagCompletesEveryStepOnce ==
    /\ <>(pc = "returned")
    /\ [](pc = "returned" =>
            \A i \in DOMAIN task :
                /\ launches[i] = 1
                /\ invoked[i] = 1
                /\ task[i] = "done"
                /\ steps[i].step_id \in completed
                /\ Cardinality(StartedAt(i)) = 1
                /\ Cardinality(CompletedAt(i)) = 1)
    /\ [][pc = "returned" => events' = events]_vars

\* A plan of three steps or more, one of them with two dependencies, has run
\* to its normal return.
C2_Witness ==
    /\ pc = "returned"
    /\ Len(steps) >= 3
    /\ \E i \in DOMAIN task : Cardinality(steps[i].depends_on) >= 2

\* C3: for a plan whose dependency graph has a cycle, also when further
\* steps are not on the cycle, the scheduler fails before any step is
\* launched: no task is created, no worker is invoked and no step-started
\* event is published.
C3_CyclicPlanLaunchesNothing == HasCycle(steps) => NothingLaunched

\* C4: for a plan in which some depends_on names an id that is no step of
\* the plan, the scheduler rejects the plan before any step runs: no step,
\* also none without dependencies, is launched.
C4_UnknownDependencyLaunchesNothing == ~KnownDeps(steps) => NothingLaunched

\* C5: the scheduler neither returns nor raises while a task it launched is
\* still running: a step failure reaches the caller only after every step
\* that was running has reached a terminal state.
C5_NoExitWhileTasksRun ==
    pc \in {"returned", "raised"} =>
        \A i \in DOMAIN task : task[i] \in {"none", "done", "failed"}

\* C6: a step whose worker has not returned within the step's
\* timeout_seconds is marked failed (and the scheduler stops waiting for it).
C6_OverdueStepIsFailed ==
    \A i \in DOMAIN task : Overdue(i) => task[i] = "failed"

\* C7: when steps of a run fail, the error _execute_plan raises carries the
\* ids of all the failed steps: the failing step's id can be read from it,
\* and when two running steps both failed, both are reported.
C7_ErrorCarriesFailedStepIds ==
    [][(pc = "waiting" /\ pc' = "raised") =>
          StepIdsNamedBy(error') =
              {steps[i].step_id : i \in {j \in DoneTasks : task[j] = "failed"}}]_vars

\* C8: the error raised on a deadlock names exactly the steps that never
\* became ready: every incomplete step and no completed step.
C8_DeadlockErrorNamesStuckSteps ==
    (pc = "raised" /\ error = DeadlockError) =>
        StepIdsNamedBy(error) = StepIdSet(steps) \ completed

\* C9: a step whose agent_type has no registered specialist fails with an
\* error that identifies the missing agent type; analyze is invoked for it
\* by no worker, no step-completed event is published for it, it is never
\* added to completed, it is launched once only, and the run ends in error:
\* the scheduler schedules no further round and does not return, its raise
\* is enabled once every created task has had its first turn, and when it
\* leaves its wait it raises the exception of a failed step.
C9_UnregisteredStepState ==
    \A i \in DOMAIN task :
        (Unregistered(i) /\ Begun(i)) =>
            /\ task[i] = "failed"
            /\ exc[i] = NoSpecialistError(steps[i].agent_type)
            /\ Names(exc[i], steps[i].agent_type)
            /\ invoked[i] = 0
            /\ CompletedAt(i) = {}
            /\ steps[i].step_id \notin completed
            /\ launches[i] = 1
            /\ pc \in {"waiting", "raised"}
            /\ (pc = "waiting" /\ \A j \in DOMAIN task : task[j] # "created")
                  => ENABLED ProcessDoneRaise

C9_UnregisteredStepFailsTheRun ==
    /\ []C9_UnregisteredStepState
    /\ [][(/\ pc = "waiting"
           /\ pc' # "waiting"
           /\ \E i \in DOMAIN task : Unregistered(i) /\ Begun(i))
          => (/\ pc' = "raised"
              /\ \E j \in DoneTasks : task[j] = "failed" /\ error' = exc[j])]_vars

\* A run has ended with the error of a step that has no specialist, while
\* another step of the plan has one.
C9_Witness ==
    /\ pc = "raised"
    /\ \E i \in DOMAIN task :
          /\ Unregistered(i)
          /\ Begun(i)
          /\ error = NoSpecialistError(steps[i].agent_type)
    /\ \E i \in DOMAIN task : ~Unregistered(i)

\* C10: for every step that is run, its step-started event is published
\* before analyze is invoked and its step-completed event only after analyze
\* has returned; in the publish order step-started precedes step-completed,
\* and a completed step has exactly one of each.
C10_StartedThenAnalyzeThenCompleted ==
    \A i \in DOMAIN task :
        /\ invoked[i] > 0 => StartedAt(i) # {}
        /\ CompletedAt(i) # {} => (invoked[i] > 0 /\ task[i] = "done")
        /\ \A k \in CompletedAt(i) : \E j \in StartedAt(i) : j < k
        /\ steps[i].step_id \in completed =>
              (Cardinality(StartedAt(i)) = 1 /\ Cardinality(CompletedAt(i)) = 1)

\* Two steps have completed, each with its two events, while a third is
\* still inside analyze.
C10_Witness ==
    /\ Cardinality(completed) >= 2
    /\ \A i \in DOMAIN task :
          steps[i].step_id \in completed => (StartedAt(i) # {} /\ CompletedAt(i) # {})
    /\ \E i \in DOMAIN task : task[i] = "analyzing"

(***************************************************************************)
(* EventBus claims.                                                        *)
(***************************************************************************)
SeqRange(q) == {q[k] : k \in 1..Len(q)}

\* C11: a subscribed callback has been handed every event published since
\* it subscribed, none is dropped, and it has been handed no other event.
C11_PublishedEventsAreDelivered ==
    \A cb \in Callbacks :
        Live(cb) => SeqRange(delivered[cb]) = SeqRange(due[cb])

\* C12: of two events published in this order while a callback was
\* subscribed, the callback is handed the first before the second.
C12_DeliveredInPublishOrder ==
    \A cb \in Callbacks :
        \A i, j \in 1..Len(due[cb]) :
            i < j => \E p, q \in 1..Len(delivered[cb]) :
                        /\ p < q
                        /\ delivered[cb][p] = due[cb][i]
                        /\ delivered[cb][q] = due[cb][j]

\* C13: a callback that has unsubscribed keeps the events published while
\* it was subscribed, and is handed none of the events published later.
C13_UnsubscribedKeepsQueuedEventsOnly ==
    \A cb \in Callbacks :
        subscription[cb] = Unsubscribed => delivered[cb] = due[cb]

(***************************************************************************)
(* SharedContext claims.  `report` is what the last consolidate or          *)
(* get_report call returned, and StoredAt the findings the store held when *)
(* the last read (`returned`) was made.                                    *)
(***************************************************************************)
StoredAt == SubSeq(findings, 1, returned.at)

KnownSeverities == {"critical", "high", "medium", "low"}

\* The position of the first finding of fs with this key.
FirstWithKey(fs, key) ==
    CHOOSE k \in 1..Len(fs) :
        /\ DedupKey(fs[k]) = key
        /\ \A j \in 1..(k - 1) : DedupKey(fs[j]) # key

RECURSIVE SumOver(_, _)
SumOver(d, keys) ==
    IF keys = {} THEN 0
    ELSE LET k == CHOOSE x \in keys : TRUE IN d[k] + SumOver(d, keys \ {k})

\* C14: the report a get_report call returns is the consolidation of the
\* findings stored at the time of that call, whatever calls came before.
C14_GetReportConsolidatesStoredFindings ==
    returned.op = "get_report" => report = ConsolidateReport(StoredAt)

\* C15: the report consolidate returns holds, for every key (category,
\* line, description) of a stored finding, exactly one finding, and it is
\* the first stored finding with that key; it holds no other finding.
C15_OneFindingPerKeyTheFirstInserted ==
    returned.op = "consolidate" =>
        LET rf == report.findings
        IN /\ \A k \in 1..Len(StoredAt) :
                  \E p \in 1..Len(rf) :
                      /\ rf[p] = StoredAt[FirstWithKey(StoredAt, DedupKey(StoredAt[k]))]
                      /\ \A q \in 1..Len(rf) :
                            DedupKey(rf[q]) = DedupKey(StoredAt[k]) => q = p
           /\ \A p \in 1..Len(rf) : \E k \in 1..Len(StoredAt) : rf[p] = StoredAt[k]

\* A high finding followed by a critical one with the same key: only the
\* high one is reported.
C15_Witness ==
    /\ returned.op = "consolidate"
    /\ StoredAt = <<Finding(10, "high"), Finding(10, "critical")>>
    /\ report.findings = <<Finding(10, "high")>>

\* C16: the findings of the report consolidate returns are the
\* deduplicated findings by descending severity weight, and two findings
\* of equal weight are in the order they were inserted.
C16_RankedByWeightStable ==
    returned.op = "consolidate" =>
        LET rf == report.findings
            at(p) == FirstWithKey(StoredAt, DedupKey(rf[p]))
        IN /\ SeqRange(rf) = SeqRange(Deduplicate(StoredAt))
           /\ Len(rf) = Len(Deduplicate(StoredAt))
           /\ \A p, q \in 1..Len(rf) :
                  p < q => \/ Score(rf[p]) > Score(rf[q])
                           \/ Score(rf[p]) = Score(rf[q]) /\ at(p) < at(q)

\* Insertion order [low, critical, medium] is reported as [critical,
\* medium, low].
C16_Witness ==
    /\ returned.op = "consolidate"
    /\ StoredAt = <<Finding(10, "low"), Finding(20, "critical"), Finding(30, "medium")>>
    /\ report.findings =
          <<Finding(20, "critical"), Finding(30, "medium"), Finding(10, "low")>>

\* C17: in every report, total_findings is the length of findings,
\* risk_score is the sum of the weights of those findings, the counts of
\* severity_breakdown and of agent_breakdown each sum to total_findings,
\* and total_findings is the number of distinct keys stored.
C17_AggregatesOverReportedFindings ==
    report # EmptyDict =>
        LET rf == report.findings
        IN /\ report.total_findings = Len(rf)
           /\ report.risk_score = SumOver([p \in 1..Len(rf) |-> Score(rf[p])], 1..Len(rf))
           /\ SumOver(report.severity_breakdown, DOMAIN report.severity_breakdown)
                 = report.total_findings
           /\ SumOver(report.agent_breakdown, DOMAIN report.agent_breakdown)
                 = report.total_findings
           /\ returned.op = "consolidate" =>
                 report.total_findings =
                    Cardinality({DedupKey(StoredAt[k]) : k \in 1..Len(StoredAt)})

\* Three findings stored, one of them a duplicate: the report counts two.
C17_Witness ==
    /\ returned.op = "consolidate"
    /\ Len(StoredAt) = 3
    /\ report.total_findings = 2
    /\ report.risk_score > 2
    /\ Cardinality(DOMAIN report.agent_breakdown) = 2

\* C18: a reported finding whose severity is missing or is none of
\* critical/high/medium/low adds 1 to risk_score, ranks with the low
\* findings, and is counted under "low" in severity_breakdown.
C18_UnknownSeverityCountedAsLow ==
    report # EmptyDict =>
        LET rf == report.findings
            odd == {p \in 1..Len(rf) : rf[p].severity \notin KnownSeverities}
            low == {p \in 1..Len(rf) : rf[p].severity = "low"}
        IN odd # {} =>
              /\ \A p \in odd : Score(rf[p]) = 1
              /\ DOMAIN report.severity_breakdown \subseteq KnownSeverities
              /\ "low" \in DOMAIN report.severity_breakdown
              /\ report.severity_breakdown["low"] = Cardinality(odd \cup low)

\* C19: a report call on a store with no finding returns total_findings 0,
\* risk_score 0, empty breakdowns and no findings.
C19_EmptyStoreEmptyReport ==
    (returned.op \in {"consolidate", "get_report"} /\ findings = <<>>) =>
        /\ report # EmptyDict
        /\ report.total_findings = 0
        /\ report.risk_score = 0
        /\ DOMAIN report.severity_breakdown = {}
        /\ DOMAIN report.agent_breakdown = {}
        /\ report.findings = <<>>

C19_Witness ==
    /\ returned.op = "get_report"
    /\ findings = <<>>
    /\ report.total_findings = 0

\* C20: whatever the interleaving of the workers' add_finding calls, the
\* store holds every finding added so far, each once; a report taken
\* meanwhile is the report of a prefix of the appends; and once every
\* worker has added its AddsPerWorker findings the store holds
\* NumWorkers * AddsPerWorker findings and consolidate reports as many.
C20_NoAppendLost ==
    /\ Len(findings) = SumOver(added, DOMAIN added)
    /\ \A w \in DOMAIN added : \A j \in 1..added[w] :
          Cardinality({k \in 1..Len(findings) : findings[k] = WorkerFinding(w, j)}) = 1
    /\ report # EmptyDict =>
          \E n \in 0..Len(findings) :
              /\ report.total_findings = n
              /\ SeqRange(report.findings) = SeqRange(SubSeq(findings, 1, n))
    /\ (\A w \in DOMAIN added : added[w] = AddsPerWorker) =>
          /\ Len(findings) = NumWorkers * AddsPerWorker
          /\ (returned.op = "consolidate" /\ returned.at = Len(findings)) =>
                report.total_findings = NumWorkers * AddsPerWorker

\* The workers' appends interleaved, a report taken at the end.
C20_Witness ==
    /\ \A w \in DOMAIN added : added[w] = AddsPerWorker
    /\ findings[1].agent_type # findings[2].agent_type
    /\ returned.op = "consolidate"
    /\ returned.at = Len(findings)
    /\ report.total_findings = NumWorkers * AddsPerWorker

\* The worker whose finding this is.
AdderOf(f) == ((f.line - 1) \div AddsPerWorker) + 1

\* C21: every stored finding carries the worker_id and the worker_type of
\* the worker that added it.
C21_StoredFindingTaggedWithWorker ==
    \A k \in 1..Len(findings) :
        /\ {"worker_id", "worker_type"} \subseteq DOMAIN findings[k]
        /\ findings[k].worker_id = AdderOf(findings[k])
        /\ findings[k].worker_type = AgentTypeOf(AdderOf(findings[k]))

\* C22: a call either leaves the stored findings as they are or puts one
\* finding, the argument of add_finding, behind them; consolidate,
\* get_report and get_all_findings leave them as they are; and add_finding
\* succeeds for every finding.
C22_StoreIsAppendOnly ==
    /\ [](Len(findings) < MaxFindings => \A f \in Findings : ENABLED AddFinding(f))
    /\ [][\/ findings' = findings
          \/ /\ Len(findings') = Len(findings) + 1
             /\ SubSeq(findings', 1, Len(findings)) = findings
             /\ findings'[Len(findings')] \in Findings
             /\ report' = report
             /\ returned' = returned]_vars

\* Unranked findings with a duplicate key, still stored as added after a
\* report and a get_all_findings.
C22_Witness ==
    /\ findings = <<Finding(10, "low"), Finding(10, "critical"), Finding(20, "high")>>
    /\ report = ConsolidateReport(findings)
    /\ report.total_findings = 2
    /\ returned = [op |-> "get_all_findings", at |-> 3]

\* C23: the total_findings of a report is never below the total_findings
\* of the report before it.
C23_TotalFindingsNeverDecreases ==
    [][(report # EmptyDict /\ report' # EmptyDict) =>
          report'.total_findings >= report.total_findings]_vars

\* A report of one finding, another finding added, then get_report.
C23_Witness ==
    /\ returned = [op |-> "get_report", at |-> 2]
    /\ Cardinality({DedupKey(findings[k]) : k \in 1..2}) = 2
    /\ report.total_findings = 1

(***************************************************************************)
(* Event claims.                                                           *)
(***************************************************************************)
\* The text ends in exactly one Z.
EndsInOneZ(text) ==
    /\ Len(text) >= 2
    /\ text[Len(text)] = "Z"
    /\ text[Len(text) - 1] # "Z"

\* C24: to_dict of an Event with fields of the declared types succeeds,
\* with event_type as the string tag and a timestamp text that ends in Z;
\* from_dict of that dict succeeds and returns an Event with the same
\* event_id, event_type, agent_id, timestamp, correlation_id and data.
C24_RoundTripKeepsEveryField ==
    (evt \in TypedEvents /\ outcome.op \in {"to_dict", "from_dict"}) =>
        /\ outcome.exc = "None"
        /\ wire.event_id = evt.event_id
        /\ wire.event_type = evt.event_type.value
        /\ EndsInOneZ(wire.timestamp)
        /\ outcome.op = "from_dict" =>
              /\ decoded.event_id = evt.event_id
              /\ decoded.event_type = evt.event_type
              /\ decoded.agent_id = evt.agent_id
              /\ decoded.timestamp = evt.timestamp
              /\ decoded.correlation_id = evt.correlation_id
              /\ decoded.data = evt.data

\* An Event with microseconds, a correlation id and a payload has made
\* the round trip.
C24_Witness ==
    /\ evt \in TypedEvents
    /\ outcome = [op |-> "from_dict", exc |-> "None"]
    /\ evt.timestamp.microsecond = 500000
    /\ evt.correlation_id = "run-1"
    /\ evt.data # EmptyDict
    /\ decoded = evt

\* C25: from_dict of a received dict that has event_type and agent_id
\* succeeds whether or not event_id and timestamp are present: the fields
\* present are kept and a missing event_id or timestamp gets a new value.
C25_MissingIdOrTimestampIsAssigned ==
    (evt = NoEvent /\ outcome.op = "from_dict"
         /\ {"event_type", "agent_id"} \subseteq DOMAIN wire) =>
        /\ outcome.exc = "None"
        /\ decoded.event_type.value = wire.event_type
        /\ decoded.agent_id = wire.agent_id
        /\ decoded.timestamp.type = "datetime"
        /\ "timestamp" \in DOMAIN wire =>
              IsoFormat(decoded.timestamp) \o <<"Z">> = wire.timestamp
        /\ decoded.event_id =
              IF "event_id" \in DOMAIN wire THEN wire.event_id ELSE FreshUuid
        /\ "data" \in DOMAIN wire => decoded.data = wire.data

\* C26: to_dict of an Event made by _emit_event succeeds, with event_type
\* as the string tag and a timestamp text that ends in exactly one Z.
C26_EmittedEventConverts ==
    (evt \in EmittedEvents /\ outcome.op = "to_dict") =>
        /\ outcome.exc = "None"
        /\ wire.event_type = evt.event_type.value
        /\ EndsInOneZ(wire.timestamp)

\* C27: a callback subscribed with one event_type has been handed exactly
\* the events of that type published since, and a callback subscribed with
\* event_type None every event published since.
C27_FilterSelectsDeliveredEvents ==
    \A cb \in Callbacks :
        \A e \in SeqRange(published) :
            Live(cb) =>
                /\ e \in SeqRange(due[cb]) => e \in SeqRange(delivered[cb])
                /\ e \in SeqRange(delivered[cb]) =>
                      (e \in SeqRange(due[cb]) /\ Wants(cb, e))

\* C28: publish returns in every state of the bus, whatever the callbacks
\* have left undrained, and it drops no event: an event published for a
\* subscribed callback has been handed to it or is buffered in the queue.
C28_PublishNeitherBlocksNorDrops ==
    /\ Len(published) < MaxPublished => ENABLED PublishCall
    /\ \A cb \in Callbacks :
           Live(cb) =>
               \A k \in 1..Len(due[cb]) :
                   due[cb][k] \in SeqRange(delivered[cb]) \cup SeqRange(eventQueue)

(***************************************************************************)
(* Scheduler claims: first completion, failure.                            *)
(***************************************************************************)
\* Every dependency of step i is a step whose task has finished.
DepsDone(i) ==
    /\ i \in DOMAIN steps
    /\ \A dep \in steps[i].depends_on :
           \E j \in DOMAIN steps : steps[j].step_id = dep /\ task[j] = "done"

\* C29: once every step that step i depends on has finished, step i is
\* eventually launched, whether or not the other running steps ever finish.
C29_LaunchedOnFirstCompletion ==
    \A i \in 1..MaxSteps : DepsDone(i) ~> (i \in DOMAIN steps /\ Launched(i))

\* Step c, which depends on a alone, has been launched after a completed
\* while b, launched together with a, is still inside analyze.
C29_Witness ==
    /\ Len(steps) = 3
    /\ steps[1].depends_on = {} /\ steps[2].depends_on = {}
    /\ steps[3].depends_on = {steps[1].step_id}
    /\ steps[1].step_id \in completed
    /\ task[2] = "analyzing" /\ launches[2] = launches[1]
    /\ Launched(3)

\* The steps that depend on step i, directly or transitively.
Dependents(i) == {j \in DOMAIN steps : steps[i].step_id \in TransDeps(steps, j)}

\* C30: a step whose task failed is not in completed and has no
\* step-completed event, no step that depends on it directly or
\* transitively has been launched, and from the failure on no step is
\* launched.
C30_FailedStepBlocksPlan ==
    /\ [](\A i \in DOMAIN task :
             task[i] = "failed" =>
                 /\ steps[i].step_id \notin completed
                 /\ CompletedAt(i) = {}
                 /\ \A j \in Dependents(i) : ~Launched(j))
    /\ [][(pc = "raised" \/ \E i \in DOMAIN task : task[i] = "failed")
              => launches' = launches]_vars

\* The scheduler has processed the failure of a step, and a step that
\* depends on it directly and one that depends on it only transitively
\* have not been launched.
C30_Witness ==
    /\ pc = "raised"
    /\ \E i \in DOMAIN task :
          /\ task[i] = "failed"
          /\ error = exc[i]
          /\ \E j, k \in Dependents(i) :
                /\ steps[i].step_id \in steps[j].depends_on
                /\ steps[i].step_id \notin steps[k].depends_on
                /\ i \notin {j, k}
                /\ task[j] = "none" /\ task[k] = "none"

\* The tasks that have been created and whose coroutine has not finished.
Unfinished == {i \in DOMAIN task : task[i] \in {"created", "analyzing"}}

\* C31: of the steps that share a step_id at most one has been launched,
\* no step has been launched twice, and every task that has not finished
\* is the task the running map holds under its step_id.
C31_OneTrackedTaskPerStepId ==
    /\ \A i \in DOMAIN steps : launches[i] <= 1
    /\ \A i, j \in DOMAIN steps :
           (i # j /\ steps[i].step_id = steps[j].step_id)
               => ~(Launched(i) /\ Launched(j))
    /\ \A i \in Unfinished :
           /\ steps[i].step_id \in DOMAIN running
           /\ running[steps[i].step_id] = i

(***************************************************************************)
(* analyze claims.                                                         *)
(***************************************************************************)
\* C32: analyze ends only after _execute_plan has; when _execute_plan
\* returned, analyze returns the report the store consolidates from its
\* findings, with or without a shared_context entry in the context; and
\* the store is asked for its report only once every step is completed.
C32_AnalyzeReturnsConsolidatedReport ==
    /\ result # NoResult => pc \in {"returned", "raised"}
    /\ (result # NoResult /\ pc = "returned") =>
           /\ result.exc = "None"
           /\ result.value = ConsolidateReport(findings)
    /\ returned.op = "get_report" =>
           \A i \in DOMAIN steps : steps[i].step_id \in completed

\* No step is running, no step is ready and some step is not completed.
Stuck ==
    /\ pc = "loop"
    /\ Cardinality(completed) < Len(steps)
    /\ DOMAIN running = {}
    /\ FindReadySteps(steps, completed, running) = {}

\* C33: the scheduler never waits while nothing is running; when no step
\* is running, none is ready and some step is incomplete, launching is
\* impossible and the one step _execute_plan can take raises the deadlock
\* RuntimeError.
C33_DeadlockAborts ==
    /\ [](pc = "waiting" => DOMAIN running # {})
    /\ [](Stuck => (ENABLED Deadlock /\ ~ENABLED ScheduleReady))
    /\ [][Stuck => (pc' = "raised" /\ error' = DeadlockError)]_vars

\* After the steps that could run have completed, a step that depends on
\* itself or on an unknown step was left over and the run was aborted.
C33_Witness ==
    /\ pc = "raised"
    /\ error = DeadlockError
    /\ completed # {}
    /\ \E i \in DOMAIN steps :
          /\ task[i] = "none"
          /\ \/ steps[i].step_id \in TransDeps(steps, i)
             \/ ~(steps[i].depends_on \subseteq StepIdSet(steps))

\* C34: when the scheduler suspends after a round, every step that was
\* ready at the start of the round (not completed, not running, every
\* dependency completed) has a task and is in the running map, whatever
\* its can_run_parallel flag and however many steps that makes.
C34_EveryReadyStepLaunched ==
    [][(pc = "loop" /\ pc' = "waiting") =>
          \A i \in DOMAIN steps :
              (/\ steps[i].step_id \notin completed
               /\ steps[i].step_id \notin DOMAIN running
               /\ steps[i].depends_on \subseteq completed)
                  => /\ task'[i] = "created"
                     /\ launches'[i] = launches[i] + 1
                     /\ steps[i].step_id \in DOMAIN running']_vars

\* Two independent steps that both declare can_run_parallel false are
\* inside analyze at the same time.
C34_Witness ==
    \E i, j \in DOMAIN steps :
        /\ i # j
        /\ ~steps[i].can_run_parallel /\ ~steps[j].can_run_parallel
        /\ steps[i].depends_on = {} /\ steps[j].depends_on = {}
        /\ task[i] = "analyzing" /\ task[j] = "analyzing"
        /\ {steps[i].step_id, steps[j].step_id} \subseteq DOMAIN running

====
